---- MODULE Spec2Model ----
(***************************************************************************)
(* Print-shop backend: orders (pricing, totals, status, numbering),        *)
(* payments (fees, refunds, mobile-money callback), the service catalogue, *)
(* uploaded files (validation, versions, background processing), sessions  *)
(* (refresh tokens) and inventory (stock movements).  Each request handler *)
(* is one action; the handlers that await a count query before an insert   *)
(* (createOrder, createPayment), the file handlers that push a version and *)
(* the background processing of an upload also exist split at the await.   *)
(***************************************************************************)
EXTENDS Integers, Sequences, FiniteSets, Bags, TLC

VARIABLES
  now,        \* the clock read by `new Date()`
  services,   \* the Service collection: id -> document
  orders,     \* the Order collection: _id -> document
  nextOrderId,\* the next fresh Order _id
  payments,   \* the Payment collection: _id -> document
  nextPaymentId,
  inflight,   \* requests and background tasks suspended at an await
  files,      \* the FileDocument collection: _id -> document
  accounts,   \* the User collection: id -> the fields authentication uses
  inventory,  \* the InventoryItem collection with its StockMovement log
  last        \* the last request answered: who asked what, and the answer

vars ==
  <<now, services, orders, nextOrderId, payments, nextPaymentId, inflight,
    files, accounts, inventory, last>>

----------------------------------------------------------------------------
(* Bounds of the model *)

MaxOrders == 3      \* orders ever created
MaxPayments == 2    \* payments ever created
MaxTime == 3        \* clock ticks
MaxItems == 2       \* line items in one request
MaxRefunds == 3     \* refund records on one payment
MaxInflight == 2    \* requests suspended at the same time
MaxVersions == 2    \* versions of one file
MaxStock == 4       \* units of one article in stock
MaxMovements == 3   \* stock movements recorded

TicksPerDay == 2    \* clock ticks in one calendar day

----------------------------------------------------------------------------
(* Absent values *)

NoValue == "none"   \* an absent string / id (undefined)
NoDate == 0         \* an absent Date

----------------------------------------------------------------------------
(* Users: req.user after authenticate *)

Clients == {"c1", "c2"}
Admins == {"a1"}
Employees == {"e1"}
Users == Clients \cup Admins \cup Employees

RoleOf(u) == IF u \in Clients THEN "client" ELSE IF u \in Admins THEN "admin" ELSE "employee"

\* authorize(...roles): the route guard
AuthorizeAnyone(u, roles) == TRUE
Authorize(u, roles) == RoleOf(u) \in roles

----------------------------------------------------------------------------
(* Service catalogue and price calculation *)

ServiceIds == {"s1", "s2", "s3", "s4"}   \* "s3" is an id with no document

InitServices ==
  [s \in {"s1", "s2", "s4"} |->
     CASE s = "s1" ->
            [basePrice |-> 50, minQuantity |-> 2, maxQuantity |-> 3, isActive |-> TRUE,
             options |-> << [id |-> "o1", priceModifier |-> 10],
                            [id |-> "o2", priceModifier |-> 5] >>]
       [] s = "s2" ->
            [basePrice |-> 20, minQuantity |-> 1, maxQuantity |-> 4, isActive |-> FALSE,
             options |-> << >>]
       [] OTHER ->
            [basePrice |-> 30, minQuantity |-> 1, maxQuantity |-> 2, isActive |-> TRUE,
             options |-> << [id |-> "o3", priceModifier |-> -5] >>]]

RECURSIVE SumModifiers(_, _, _, _)
SumModifiers(opts, selected, quantity, i) ==
  IF i > Len(opts) THEN 0
  ELSE (IF opts[i].id \in selected THEN opts[i].priceModifier * quantity ELSE 0)
       + SumModifiers(opts, selected, quantity, i + 1)

\* serviceSchema.methods.calculatePrice; selected = the option ids whose value is truthy
calculatePriceOfBase(service, quantity, selected) == service.basePrice * quantity
calculatePrice(service, quantity, selected) ==
  service.basePrice * quantity + SumModifiers(service.options, selected, quantity, 1)

\* calculatePrice reads selectedOptions[option.id]: with options undefined this
\* throws as soon as the service has one option
PriceThrows(service, item) == ~item.hasOptions /\ Len(service.options) > 0

ServiceUsableIfStored(sid) == sid \in DOMAIN services
ServiceUsable(sid) == sid \in DOMAIN services /\ services[sid].isActive

QuantityInBounds(service, quantity) ==
  ~(quantity < service.minQuantity \/ quantity > service.maxQuantity)

\* the object one items.map callback returns
BuildItem(item) ==
  LET service == services[item.serviceId]
      unitPrice == calculatePrice(service, 1, item.options)
  IN [serviceId |-> item.serviceId,
      service |-> service,
      quantity |-> item.quantity,
      options |-> item.options,
      unitPrice |-> unitPrice,
      totalPrice |-> unitPrice * item.quantity]

\* what one createOrder items.map callback throws ("none": it returns)
CreateItemError(item) ==
  IF ~ServiceUsable(item.serviceId) THEN "ServiceNotFound"
  ELSE IF ~QuantityInBounds(services[item.serviceId], item.quantity) THEN "InvalidQuantity"
  ELSE IF PriceThrows(services[item.serviceId], item) THEN "InternalError"
  ELSE "none"

\* what one updateOrder items.map callback throws: no quantity check there
UpdateItemError(item) ==
  IF ~ServiceUsable(item.serviceId) THEN "ServiceNotFound"
  ELSE IF PriceThrows(services[item.serviceId], item) THEN "InternalError"
  ELSE "none"

\* Promise.all rejects with the error of whichever callback throws first
CreateItemErrors(items) == {CreateItemError(items[i]) : i \in 1..Len(items)} \ {"none"}
UpdateItemErrors(items) == {UpdateItemError(items[i]) : i \in 1..Len(items)} \ {"none"}

BuildItems(items) == [i \in 1..Len(items) |-> BuildItem(items[i])]

\* orderItemSchema validators run by save: quantity min 1
ItemsValid(items) == \A i \in 1..Len(items) : items[i].quantity >= 1

----------------------------------------------------------------------------
(* Order document methods *)

RECURSIVE SumTotalPrice(_, _)
SumTotalPrice(items, i) ==
  IF i > Len(items) THEN 0 ELSE items[i].totalPrice + SumTotalPrice(items, i + 1)

TaxRatePercent == 20

\* orderSchema.methods.calculateTotals (amounts are kept in whole currency units;
\* every price of the catalogue is a multiple of 5, so 20 % is exact)
calculateTotals(o) ==
  LET subtotal == SumTotalPrice(o.items, 1)
      taxAmount == (subtotal * TaxRatePercent) \div 100
  IN [o EXCEPT !.subtotal = subtotal,
               !.taxAmount = taxAmount,
               !.totalPrice = subtotal + taxAmount + o.shippingCost - o.discountAmount]

DayOf(t) == (t - 1) \div TicksPerDay + 1

RECURSIVE ToDigits(_)
ToDigits(n) == IF n < 10 THEN <<n>> ELSE Append(ToDigits(n \div 10), n % 10)

RECURSIVE PadStart(_, _, _)
PadStart(s, width, fill) == IF Len(s) >= width THEN s ELSE PadStart(<<fill>> \o s, width, fill)

SequenceWidth == 4

\* countDocuments({createdAt: {$gte: startOfDay, $lt: endOfDay}})
CountCreatedOn(coll, day) == Cardinality({i \in DOMAIN coll : DayOf(coll[i].createdAt) = day})

\* the suspended requests of one kind (a bag: two requests may be equal)
Suspended(kind) == [r \in {x \in DOMAIN inflight : x.kind = kind} |-> inflight[r]]

\* the number taken from the count plus the requests still suspended
OrderNumberReserving(count, t) ==
  <<"PP", DayOf(t)>> \o
  PadStart(ToDigits(count + BagCardinality(Suspended("order")) + 1),
           SequenceWidth, 0)

\* the string generateOrderNumber builds from the count it has read
OrderNumberFor(count, t) == <<"PP", DayOf(t)>> \o PadStart(ToDigits(count + 1), SequenceWidth, 0)

\* orderSchema.methods.generateOrderNumber
generateOrderNumber(coll, t) == OrderNumberFor(CountCreatedOn(coll, DayOf(t)), t)

TimestampField(status) ==
  CASE status = "confirmed" -> "confirmedAt"
    [] status = "in_production" -> "productionStartedAt"
    [] status = "ready" -> "readyAt"
    [] status = "shipped" -> "shippedAt"
    [] status = "delivered" -> "deliveredAt"
    [] OTHER -> NoValue

\* orderSchema.methods.updateStatus, with the save it ends on
updateStatusUnstamped(o, newStatus, t) == calculateTotals([o EXCEPT !.status = newStatus])
updateStatus(o, newStatus, t) ==
  LET f == TimestampField(newStatus)
      o1 == [o EXCEPT !.status = newStatus]
      o2 == IF f = NoValue THEN o1 ELSE [o1 EXCEPT ![f] = t]
  IN calculateTotals(o2)

OrderStatuses ==
  {"draft", "quote", "pending", "confirmed", "in_production", "ready", "shipped",
   "delivered", "cancelled"}

Priorities == {"low", "normal", "high", "urgent"}

\* the document Order.create builds in createOrder, before the pre-save hooks
NewOrder(user, req, t) ==
  [orderNumber |-> << >>,
   clientId |-> user,
   items |-> BuildItems(req.items),
   status |-> "draft",
   subtotal |-> 0, taxAmount |-> 0, totalPrice |-> 0,
   discountAmount |-> 0, shippingCost |-> 0,
   notes |-> req.notes,
   internalNotes |-> NoValue,
   confirmedAt |-> NoDate, productionStartedAt |-> NoDate, readyAt |-> NoDate,
   shippedAt |-> NoDate, deliveredAt |-> NoDate,
   estimatedDeliveryDate |-> NoDate,
   billingAddress |-> req.billingAddress,
   shippingAddress |-> IF req.shippingAddress # NoValue THEN req.shippingAddress
                       ELSE req.billingAddress,
   paymentStatus |-> "pending",
   quoteDocument |-> << >>,
   invoiceDocument |-> << >>,
   assignedTo |-> NoValue,
   priority |-> IF req.priority # NoValue THEN req.priority ELSE "normal",
   createdAt |-> t]

\* the numbers the unique index on orderNumber refuses
OrderNumbersUnindexed == {}
OrderNumbers == {orders[i].orderNumber : i \in DOMAIN orders}

\* what `last` keeps of a request: the handler, req.user, the :id, the fields the
\* body carried, and the answer
Answer(op, user, id, sent, code) ==
  [op |-> op, user |-> user, id |-> id, sent |-> sent, code |-> code]

----------------------------------------------------------------------------
(* Initial state: an empty database behind a seeded catalogue *)

NoRequest == Answer("none", NoValue, 0, {}, "none")

\* the users' documents: no session, no password reset asked for
InitAccounts == [u \in Users |-> [refreshTokens |-> << >>, passwordResetToken |-> FALSE]]

\* the inventory: one article in stock at its minimum, no movement yet, and the
\* empty StockMovement collection
InitInventory ==
  [items |-> [i1 |-> [currentStock |-> 2, minStock |-> 2, status |-> "low",
                      stockMovements |-> << >>]],
   movements |-> << >>]

Init ==
  /\ files = << >>
  /\ accounts = InitAccounts
  /\ inventory = InitInventory
  /\ now = 1
  /\ services = InitServices
  /\ orders = << >>
  /\ nextOrderId = 1
  /\ payments = << >>
  /\ nextPaymentId = 1
  /\ inflight = EmptyBag
  /\ last = NoRequest

Tick ==
  /\ now < MaxTime
  /\ now' = now + 1
  /\ UNCHANGED <<files, accounts, inventory, services, orders, nextOrderId, payments, nextPaymentId, inflight, last>>

----------------------------------------------------------------------------
(* Order controller *)

\* createOrderValidation: items is an array of at least one, each quantity an int >= 1
CreateOrderValid(req) ==
  /\ Len(req.items) >= 1
  /\ \A i \in 1..Len(req.items) : req.items[i].quantity >= 1

\* the two pre-save hooks, in order: the number, then the totals
PreSaveNew(doc, coll, t) ==
  calculateTotals([doc EXCEPT !.orderNumber = generateOrderNumber(coll, t)])

Reject(op, user, id, sent, code) ==
  /\ last' = Answer(op, user, id, sent, code)
  /\ UNCHANGED <<files, accounts, inventory, now, services, orders, nextOrderId, payments, nextPaymentId, inflight>>

\* createOrder run without another request in between
CreateOrder(user, req) ==
  /\ nextOrderId <= MaxOrders
  /\ IF ~CreateOrderValid(req)
     THEN Reject("createOrder", user, 0, {"items"}, "ValidationError")
     ELSE IF CreateItemErrors(req.items) # {}
     THEN \E e \in CreateItemErrors(req.items) :
            Reject("createOrder", user, 0, {"items"}, e)
     ELSE LET doc == PreSaveNew(NewOrder(user, req, now), orders, now)
          IN IF doc.orderNumber \in OrderNumbers
             THEN Reject("createOrder", user, 0, {"items"}, "Conflict")
             ELSE /\ orders' = orders @@ (nextOrderId :> doc)
                  /\ nextOrderId' = nextOrderId + 1
                  /\ last' = Answer("createOrder", user, nextOrderId, {"items"}, "Created")
                  /\ UNCHANGED <<files, accounts, inventory, now, services, payments, nextPaymentId, inflight>>

\* updateOrder lines 146-154: what a client must satisfy to get past the checks
ClientMayEditAnyStatus(o, user) == o.clientId = user
ClientMayEdit(o, user) == o.clientId = user /\ o.status = "draft"

\* the role test on internalNotes, status, priority, assignedTo, estimatedDeliveryDate
MayManageAnyRole(role) == TRUE
MayManage(role) == role # "client"

\* the test on the item replacement
ReplacesItems(o, user, req) == req.items # {} /\ RoleOf(user) = "client" /\ o.status = "draft"

\* the fields of updateOrder's document after the assignments, before the last save
AssignedOrder(o, user, req, t) ==
  LET role == RoleOf(user)
      o1 == IF ReplacesItems(o, user, req)
            THEN [o EXCEPT !.items = BuildItems(CHOOSE l \in req.items : TRUE)]
            ELSE o
      o2 == IF req.notes # NoValue THEN [o1 EXCEPT !.notes = req.notes] ELSE o1
      o3 == IF req.internalNotes # NoValue /\ MayManage(role)
            THEN [o2 EXCEPT !.internalNotes = req.internalNotes] ELSE o2
      o4 == IF req.status # NoValue /\ MayManage(role)
            THEN updateStatus(o3, req.status, t) ELSE o3
      o5 == IF req.priority # NoValue /\ MayManage(role)
            THEN [o4 EXCEPT !.priority = req.priority] ELSE o4
      o6 == IF req.assignedTo # NoValue /\ MayManage(role)
            THEN [o5 EXCEPT !.assignedTo = req.assignedTo] ELSE o5
  IN IF req.estimatedDeliveryDate # NoDate /\ MayManage(role)
     THEN [o6 EXCEPT !.estimatedDeliveryDate = req.estimatedDeliveryDate] ELSE o6

\* the pre-save hook of an order that is not new
PreSaveStale(o) == o
PreSaveRenumbering(o) ==
  calculateTotals([o EXCEPT !.orderNumber = generateOrderNumber(orders, now)])
PreSaveRepricing(o) ==
  calculateTotals(
    [o EXCEPT !.items =
       [i \in 1..Len(o.items) |->
          LET unitPrice == calculatePrice(services[o.items[i].serviceId], 1, o.items[i].options)
          IN [o.items[i] EXCEPT !.service = services[o.items[i].serviceId],
                                !.unitPrice = unitPrice,
                                !.totalPrice = unitPrice * o.items[i].quantity]]])
PreSave(o) == calculateTotals(o)

\* the document updateOrder saves when nothing throws
UpdatedOrder(o, user, req, t) == PreSave(AssignedOrder(o, user, req, t))

Store(op, user, id, sent, doc) ==
  /\ orders' = [orders EXCEPT ![id] = doc]
  /\ last' = Answer(op, user, id, sent, "Ok")
  /\ UNCHANGED <<files, accounts, inventory, now, services, nextOrderId, payments, nextPaymentId, inflight>>

\* the fields an updateOrder body carries
Sent(req) ==
  (IF req.items # {} THEN {"items"} ELSE {})
  \cup {f \in {"notes", "internalNotes", "status", "priority", "assignedTo"} : req[f] # NoValue}

UpdateOrder(user, id, req) ==
  IF id \notin DOMAIN orders
  THEN Reject("updateOrder", user, id, Sent(req), "NotFound")
  ELSE LET o == orders[id]
           errs == IF ReplacesItems(o, user, req)
                   THEN UpdateItemErrors(CHOOSE l \in req.items : TRUE)
                   ELSE {}
       IN IF RoleOf(user) = "client" /\ ~ClientMayEdit(o, user)
          THEN Reject("updateOrder", user, id, Sent(req), "Forbidden")
          ELSE IF errs # {}
          THEN \E e \in errs : Reject("updateOrder", user, id, Sent(req), e)
          ELSE IF ~ItemsValid(UpdatedOrder(o, user, req, now).items)
          THEN Reject("updateOrder", user, id, Sent(req), "ValidationError")
          ELSE Store("updateOrder", user, id, Sent(req), UpdatedOrder(o, user, req, now))

\* getOrderById lines 125-128: who may read the order
MayReadAnyOrder(o, user) == TRUE
MayRead(o, user) == ~(RoleOf(user) = "client" /\ o.clientId # user)

GetOrderById(user, id) ==
  IF id \notin DOMAIN orders
  THEN Reject("getOrderById", user, id, {}, "NotFound")
  ELSE IF ~MayRead(orders[id], user)
  THEN Reject("getOrderById", user, id, {}, "Forbidden")
  ELSE Reject("getOrderById", user, id, {}, "Ok")

DeleteOrder(user, id) ==
  IF id \notin DOMAIN orders
  THEN Reject("deleteOrder", user, id, {}, "NotFound")
  ELSE IF RoleOf(user) = "client" /\ (orders[id].clientId # user \/ orders[id].status # "draft")
  THEN Reject("deleteOrder", user, id, {}, "Forbidden")
  ELSE /\ orders' = [i \in DOMAIN orders \ {id} |-> orders[i]]
       /\ last' = Answer("deleteOrder", user, id, {}, "Ok")
       /\ UNCHANGED <<files, accounts, inventory, now, services, nextOrderId, payments, nextPaymentId, inflight>>

\* orderSchema.methods.generateQuote / generateInvoice: the file name
QuoteFile(o) == <<"quote-">> \o o.orderNumber \o <<".pdf">>
InvoiceFile(o) == <<"invoice-">> \o o.orderNumber \o <<".pdf">>

GenerateQuote(user, id) ==
  IF ~Authorize(user, {"admin"})
  THEN Reject("generateQuote", user, id, {}, "Forbidden")
  ELSE IF id \notin DOMAIN orders
  THEN Reject("generateQuote", user, id, {}, "NotFound")
  ELSE Store("generateQuote", user, id, {},
             PreSave([orders[id] EXCEPT !.quoteDocument = QuoteFile(orders[id]),
                                        !.status = "quote"]))

GenerateInvoice(user, id) ==
  IF ~Authorize(user, {"admin"})
  THEN Reject("generateInvoice", user, id, {}, "Forbidden")
  ELSE IF id \notin DOMAIN orders
  THEN Reject("generateInvoice", user, id, {}, "NotFound")
  ELSE IF orders[id].status \notin {"delivered", "ready"}
  THEN Reject("generateInvoice", user, id, {}, "BadRequest")
  ELSE Store("generateInvoice", user, id, {},
             PreSave([orders[id] EXCEPT !.invoiceDocument = InvoiceFile(orders[id])]))

----------------------------------------------------------------------------
(* Requests *)

ItemReq(sid, q, sel) == [serviceId |-> sid, quantity |-> q, hasOptions |-> TRUE, options |-> sel]

GoodItem == ItemReq("s1", 2, {})

\* line items the clients send: within bounds, above the maximum (with an option
\* the service has and one it has not), below the minimum, zero, for a service
\* that does not exist
ItemInputs ==
  { GoodItem, ItemReq("s1", 4, {"o1", "o9"}), ItemReq("s1", 1, {}), ItemReq("s1", 0, {}),
    ItemReq("s3", 2, {}) }

\* item lists of one item, and longer ones that start with good items
RECURSIVE ItemListsOf(_)
ItemListsOf(n) ==
  IF n = 1 THEN {<<x>> : x \in ItemInputs}
  ELSE ItemListsOf(n - 1) \cup
       {[i \in 1..n |-> IF i < n THEN GoodItem ELSE x] : x \in ItemInputs}

ItemLists == ItemListsOf(MaxItems)

CreateReq(items, priority) ==
  [items |-> items, notes |-> NoValue, billingAddress |-> "addr1",
   shippingAddress |-> NoValue, priority |-> priority]

UpdateReq(items, notes, status, priority, assignedTo) ==
  [items |-> items, notes |-> notes, internalNotes |-> NoValue, status |-> status,
   priority |-> priority, assignedTo |-> assignedTo, estimatedDeliveryDate |-> NoDate]

StatusReq(status) == UpdateReq({}, NoValue, status, NoValue, NoValue)

\* updateOrder bodies: new items; new notes; a status with a priority and an
\* assignee; everything at once
EditInputs ==
  {UpdateReq({l}, NoValue, NoValue, NoValue, NoValue) : l \in ItemLists}
  \cup {UpdateReq({}, "note", NoValue, NoValue, NoValue)}
  \cup {UpdateReq({}, NoValue, st, "high", "e1") : st \in {"confirmed", "ready"}}
  \cup {UpdateReq({<<GoodItem>>}, "note", "confirmed", "high", "e1")}

OrderIds == 1..MaxOrders

----------------------------------------------------------------------------
(* Specification of the order life cycle: one order, one request at a time *)

NextOrder ==
  \/ \E l \in ItemLists : DOMAIN orders = {} /\ CreateOrder("c1", CreateReq(l, NoValue))
  \/ \E u \in Users, id \in DOMAIN orders, r \in EditInputs : UpdateOrder(u, id, r)
  \/ \E u \in Users, id \in DOMAIN orders : DeleteOrder(u, id)
  \/ \E u \in Users, id \in DOMAIN orders : GenerateQuote(u, id)
  \/ \E u \in Users, id \in DOMAIN orders : GenerateInvoice(u, id)

SpecOrder == Init /\ [][NextOrder]_vars

----------------------------------------------------------------------------
(* Specification of pricing: one order at a time, created from line items over
   every service, quantity and map of selected options, then deleted *)

OptionIds == {"o1", "o2", "o3", "o9"}   \* "o9" is an option of no service

PriceItems ==
  {ItemReq(s, q, sel) : s \in ServiceIds, q \in 1..3, sel \in SUBSET OptionIds}

PriceLists ==
  {<<x>> : x \in PriceItems}
  \cup {<<x, ItemReq("s4", 1, {"o3", "o9"})>> : x \in PriceItems}
  \cup {<<GoodItem, x>> : x \in PriceItems}

NextPrice ==
  \/ \E l \in PriceLists : DOMAIN orders = {} /\ CreateOrder("c1", CreateReq(l, NoValue))
  \/ \E id \in DOMAIN orders : DeleteOrder("c1", id)

SpecPrice == Init /\ [][NextPrice]_vars

\* basePrice plus the modifiers of the service's options whose id is selected
ExpectedUnitPrice(service, selected) ==
  LET S[i \in 0..Len(service.options)] ==
        IF i = 0 THEN service.basePrice
        ELSE S[i - 1] + (IF service.options[i].id \in selected
                         THEN service.options[i].priceModifier ELSE 0)
  IN S[Len(service.options)]

\* every item names an active service and a quantity within its bounds
Orderable(l) ==
  \A i \in 1..Len(l) :
    /\ l[i].serviceId \in DOMAIN services /\ services[l[i].serviceId].isActive
    /\ l[i].quantity >= services[l[i].serviceId].minQuantity
    /\ l[i].quantity <= services[l[i].serviceId].maxQuantity

\* C13: for active services, quantities within bounds and any map of selected
\* options, createOrder stores each line item with unitPrice = basePrice + the
\* modifiers of the service's selected options and totalPrice = unitPrice x
\* quantity; selected ids the service does not have add nothing and raise no error.
C13_ItemPrice ==
  [][\A l \in PriceLists :
       (last'.op = "createOrder" /\ Orderable(l) /\ CreateOrder(last'.user, CreateReq(l, NoValue)))
         => /\ last'.code = "Created"
            /\ Len(orders'[last'.id].items) = Len(l)
            /\ \A i \in 1..Len(l) :
                 LET stored == orders'[last'.id].items[i]
                 IN /\ stored.unitPrice =
                         ExpectedUnitPrice(services[l[i].serviceId], l[i].options)
                    /\ stored.totalPrice = stored.unitPrice * l[i].quantity]_vars

\* an order was stored whose item selects an option of its service and an id the
\* service does not have, at a quantity above one
C13_Witness ==
  /\ last.op = "createOrder" /\ last.code = "Created" /\ last.id \in DOMAIN orders
  /\ \E i \in 1..Len(orders[last.id].items) :
       LET stored == orders[last.id].items[i]
           ids == {stored.service.options[k].id : k \in 1..Len(stored.service.options)}
       IN /\ stored.options \cap ids # {} /\ stored.options \ ids # {}
          /\ stored.quantity > 1
          /\ stored.unitPrice # stored.service.basePrice
          /\ stored.totalPrice = stored.unitPrice * stored.quantity

\* some item names a service that is not stored or not active
NamesUnusableService(l) ==
  \E i \in 1..Len(l) :
    l[i].serviceId \notin DOMAIN services \/ ~services[l[i].serviceId].isActive

\* C17: a createOrder request with an item whose service does not exist or is
\* inactive is rejected with an error and stores no order, whatever its other
\* items are; every order createOrder stores has status draft.
C17_UnusableServiceRejected ==
  [][\A l \in PriceLists :
       (last'.op = "createOrder" /\ CreateOrder(last'.user, CreateReq(l, NoValue)))
         => /\ NamesUnusableService(l)
                 => /\ last'.code \in {"ServiceNotFound", "InvalidQuantity", "InternalError"}
                    /\ orders' = orders
            /\ last'.code = "Created"
                 => /\ DOMAIN orders' = DOMAIN orders \cup {last'.id}
                    /\ orders'[last'.id].status = "draft"]_vars

\* a request was refused for its service after an earlier one had been stored
\* and deleted, and no order is stored
C17_Witness ==
  /\ last.op = "createOrder" /\ last.code = "ServiceNotFound"
  /\ DOMAIN orders = {}
  /\ nextOrderId > 1

----------------------------------------------------------------------------
(* Order totals *)

ItemsTotal(items) ==
  LET S[i \in 0..Len(items)] == IF i = 0 THEN 0 ELSE S[i - 1] + items[i].totalPrice
  IN S[Len(items)]

\* C2: every stored order has subtotal = the sum of its line items' totalPrice,
\* taxAmount = 20 % of subtotal, and totalPrice = subtotal + taxAmount -
\* discountAmount + shippingCost, whichever handler saved it last.
C2_TotalsFresh ==
  \A id \in DOMAIN orders :
    LET o == orders[id]
    IN /\ o.subtotal = ItemsTotal(o.items)
       /\ o.taxAmount * 100 = o.subtotal * 20
       /\ o.totalPrice = o.subtotal + o.taxAmount - o.discountAmount + o.shippingCost

\* an owner has replaced the items of a stored order by two items of other totals
C2_Witness ==
  /\ last.op = "updateOrder" /\ last.code = "Ok" /\ "items" \in last.sent
  /\ last.id \in DOMAIN orders
  /\ Len(orders[last.id].items) = 2
  /\ orders[last.id].items[1].totalPrice # orders[last.id].items[2].totalPrice
  /\ orders[last.id].subtotal > orders[last.id].items[1].totalPrice
  /\ orders[last.id].taxAmount > 0

----------------------------------------------------------------------------
(* Quantity bounds *)

\* C3: every line item of every stored order has a quantity within the bounds of
\* the service it was priced from (the snapshot taken when the item was added):
\* createOrder and the client's item replacement in updateOrder store no item
\* whose quantity is below minQuantity or above maxQuantity.
C3_QuantitiesInBounds ==
  \A id \in DOMAIN orders :
    \A i \in 1..Len(orders[id].items) :
      LET it == orders[id].items[i]
      IN it.quantity >= it.service.minQuantity /\ it.quantity <= it.service.maxQuantity

----------------------------------------------------------------------------
(* What a client may change *)

\* the step is the answer to an updateOrder request of a client on a stored order
\* (every handler writes its request into last, so last' names the step's request)
ClientUpdate(r) ==
  /\ last'.op = "updateOrder" /\ last'.user \in Clients /\ last'.id \in DOMAIN orders
  /\ Sent(r) = last'.sent
  /\ UpdateOrder(last'.user, last'.id, r)

\* C5: an updateOrder request made with role client on an order that is not in
\* draft leaves the order's items, notes and addresses as they were.
C5_ClientEditsOnlyDraft ==
  [][\A r \in EditInputs :
       (ClientUpdate(r) /\ orders[last'.id].status # "draft")
         => LET id == last'.id
            IN /\ id \in DOMAIN orders'
               /\ orders'[id].items = orders[id].items
               /\ orders'[id].notes = orders[id].notes
               /\ orders'[id].billingAddress = orders[id].billingAddress
               /\ orders'[id].shippingAddress = orders[id].shippingAddress]_vars

\* the owner has just asked for new items or notes on an order that left draft
C5_Witness ==
  /\ last.op = "updateOrder" /\ RoleOf(last.user) = "client"
  /\ last.sent \cap {"items", "notes"} # {}
  /\ last.id \in DOMAIN orders
  /\ orders[last.id].clientId = last.user
  /\ orders[last.id].status # "draft"
  /\ last.code = "Forbidden"

\* the step is the answer to a request of a client
ClientRequest ==
  /\ last'.user \in Clients
  /\ \/ last'.op = "createOrder" /\ \E l \in ItemLists : CreateOrder(last'.user, CreateReq(l, NoValue))
     \/ \E r \in EditInputs : ClientUpdate(r)
     \/ last'.op = "deleteOrder" /\ DeleteOrder(last'.user, last'.id)
     \/ last'.op = "generateQuote" /\ GenerateQuote(last'.user, last'.id)
     \/ last'.op = "generateInvoice" /\ GenerateInvoice(last'.user, last'.id)

\* C6: no request made with role client changes the status, priority or
\* assignedTo of a stored order, and an owner's updateOrder that sends a status
\* (and no items) for its draft order answers success with the status still draft.
C6_ClientNeverManages ==
  [][/\ ClientRequest =>
          \A id \in DOMAIN orders \cap DOMAIN orders' :
            /\ orders'[id].status = orders[id].status
            /\ orders'[id].priority = orders[id].priority
            /\ orders'[id].assignedTo = orders[id].assignedTo
     /\ \A r \in EditInputs :
          (/\ ClientUpdate(r)
           /\ orders[last'.id].clientId = last'.user /\ orders[last'.id].status = "draft"
           /\ r.status # NoValue /\ r.items = {})
            => last'.code = "Ok" /\ orders'[last'.id].status = "draft"]_vars

\* the owner sent status, priority and assignee for its draft order and got success
C6_Witness ==
  /\ last.op = "updateOrder" /\ RoleOf(last.user) = "client" /\ last.code = "Ok"
  /\ {"status", "priority", "assignedTo"} \subseteq last.sent
  /\ last.id \in DOMAIN orders
  /\ orders[last.id].status = "draft"
  /\ orders[last.id].priority = "normal"
  /\ orders[last.id].assignedTo = NoValue

OwnerUpdateOffDraft(r) ==
  /\ ClientUpdate(r)
  /\ orders[last'.id].clientId = last'.user /\ orders[last'.id].status # "draft"
  /\ (r.status # NoValue \/ r.items # {})

----------------------------------------------------------------------------
(* Specification of the status changes: one order, the staff changing its
   status while the clock runs *)

NextStatus ==
  \/ DOMAIN orders = {} /\ CreateOrder("c1", CreateReq(<<GoodItem>>, NoValue))
  \/ \E u \in Admins \cup Employees, id \in DOMAIN orders, st \in OrderStatuses :
       UpdateOrder(u, id, StatusReq(st))
  \/ Tick

SpecStatus == Init /\ [][NextStatus]_vars

StampedStatuses == {"confirmed", "in_production", "ready", "shipped", "delivered"}

\* C4 as claimed: a status timestamp that is set is never written again: when
\* updateStatus sets a status whose timestamp is already set, the timestamp
\* keeps the value of the first transition.
C4_StampedOnce ==
  [][\A id \in DOMAIN orders \cap DOMAIN orders' :
       \A st \in StampedStatuses :
         orders[id][TimestampField(st)] # NoDate
           => orders'[id][TimestampField(st)] = orders[id][TimestampField(st)]]_vars

\* the step is the answer to an accepted updateOrder of a privileged user that
\* sends this status
StatusUpdate(st) ==
  /\ now' = now
  /\ last'.op = "updateOrder" /\ last'.code = "Ok" /\ last'.id \in DOMAIN orders
  /\ last'.user \in Admins \cup Employees
  /\ UpdateOrder(last'.user, last'.id, StatusReq(st))

\* C21: an updateOrder that sets the status to confirmed, in_production, ready,
\* shipped or delivered sets the corresponding timestamp, and one that sets it
\* to draft, quote, pending or cancelled sets none of the five timestamps.
C21_TransitionStamps ==
  [][\A st \in OrderStatuses :
       StatusUpdate(st)
         => /\ orders'[last'.id].status = st
            /\ st \in StampedStatuses
                 => /\ orders'[last'.id][TimestampField(st)] = now
                    /\ orders'[last'.id][TimestampField(st)] # NoDate
            /\ st \notin StampedStatuses
                 => \A s \in StampedStatuses :
                      orders'[last'.id][TimestampField(s)] = orders[last'.id][TimestampField(s)]]_vars

\* an order was confirmed, which stamped confirmedAt, and then cancelled, which
\* stamped nothing
C21_Witness ==
  /\ last.op = "updateOrder" /\ last.code = "Ok" /\ last.id \in DOMAIN orders
  /\ LET o == orders[last.id]
     IN /\ o.status = "cancelled"
        /\ o.confirmedAt # NoDate /\ o.confirmedAt < now
        /\ o.productionStartedAt = NoDate /\ o.readyAt = NoDate
        /\ o.shippedAt = NoDate /\ o.deliveredAt = NoDate

----------------------------------------------------------------------------
(* Payments *)

PaymentStatuses == {"pending", "processing", "completed", "failed", "cancelled", "refunded"}
PaymentMethods == {"mvola", "card"}

MvolaFeePercent == 2
OtherFeePercent == 3
PlatformFeePercent == 1

\* createPayment lines 598-601 (amounts are multiples of 100, so the fees are exact)
FeesAtOneRate(amount, method) ==
  LET processingFee == (amount * OtherFeePercent) \div 100
      platformFee == (amount * PlatformFeePercent) \div 100
  IN [processingFee |-> processingFee, platformFee |-> platformFee,
      totalFees |-> processingFee + platformFee]
Fees(amount, method) ==
  LET processingFee == IF method = "mvola" THEN (amount * MvolaFeePercent) \div 100
                       ELSE (amount * OtherFeePercent) \div 100
      platformFee == (amount * PlatformFeePercent) \div 100
  IN [processingFee |-> processingFee, platformFee |-> platformFee,
      totalFees |-> processingFee + platformFee]

\* the string the payment pre-save hook builds from a count already read
PaymentNumberFor(count, t) ==
  <<"PAY-", DayOf(t), "-">> \o PadStart(ToDigits(count + 1), SequenceWidth, 0)

generatePaymentNumber(coll, t) == PaymentNumberFor(CountCreatedOn(coll, DayOf(t)), t)

NoTransaction == [transactionId |-> 0, status |-> NoValue]

\* the document Payment.create builds in createPayment, before the pre-save hook
NewPayment(user, orderId, amount, method, t) ==
  [paymentNumber |-> << >>,
   orderId |-> orderId,
   clientId |-> user,
   amount |-> amount,
   method |-> method,
   status |-> "pending",
   fees |-> Fees(amount, method),
   refunds |-> << >>,
   mvolaTransaction |-> NoTransaction,
   processedAt |-> NoDate,
   createdAt |-> t]

PaymentNumbers == {payments[i].paymentNumber : i \in DOMAIN payments}

\* createPayment after the insert: the mobile-money branch.  The provider either
\* answers with a transaction (its id is the payment's) or the call throws.
AfterInsert(doc, id, providerAnswers) ==
  IF doc.method # "mvola" THEN doc
  ELSE IF providerAnswers
  THEN [doc EXCEPT !.mvolaTransaction = [transactionId |-> id, status |-> "pending"],
                   !.status = "processing"]
  ELSE [doc EXCEPT !.status = "failed"]

RejectP(op, user, id, sent, code) ==
  /\ last' = Answer(op, user, id, sent, code)
  /\ UNCHANGED <<files, accounts, inventory, now, services, orders, nextOrderId, payments, nextPaymentId, inflight>>

\* the insert and what follows it in createPayment, for a document whose number
\* is already generated
InsertPayment(user, doc, providerAnswers) ==
  IF doc.paymentNumber \in PaymentNumbers
  THEN /\ last' = Answer("createPayment", user, 0, {}, "Conflict")
       /\ UNCHANGED <<files, accounts, inventory, payments, nextPaymentId>>
  ELSE /\ payments' = payments @@
            (nextPaymentId :> AfterInsert(doc, nextPaymentId, providerAnswers))
       /\ nextPaymentId' = nextPaymentId + 1
       /\ last' = Answer("createPayment", user, nextPaymentId, {},
                         IF doc.method = "mvola" /\ ~providerAnswers
                         THEN "BadRequest" ELSE "Created")

\* createPayment run without another request in between
CreatePayment(user, orderId, amount, method, providerAnswers) ==
  /\ nextPaymentId <= MaxPayments
  /\ IF orderId \notin DOMAIN orders
     THEN RejectP("createPayment", user, 0, {}, "NotFound")
     ELSE IF orders[orderId].clientId # user
     THEN RejectP("createPayment", user, 0, {}, "Forbidden")
     ELSE /\ InsertPayment(user,
               [NewPayment(user, orderId, amount, method, now)
                  EXCEPT !.paymentNumber = generatePaymentNumber(payments, now)],
               providerAnswers)
          /\ UNCHANGED <<files, accounts, inventory, now, services, orders, nextOrderId, inflight>>

\* Order.findByIdAndUpdate(payment.orderId, {paymentStatus: 'paid'})
MarkPaidNever(coll, orderId) == coll
MarkPaid(coll, orderId) ==
  IF orderId \in DOMAIN coll THEN [coll EXCEPT ![orderId].paymentStatus = "paid"] ELSE coll

UpdatePaymentStatus(user, id, status) ==
  IF ~Authorize(user, {"admin"})
  THEN RejectP("updatePaymentStatus", user, id, {"status"}, "Forbidden")
  ELSE IF id \notin DOMAIN payments
  THEN RejectP("updatePaymentStatus", user, id, {"status"}, "NotFound")
  ELSE /\ payments' = [payments EXCEPT ![id].status = status,
                                       ![id].processedAt =
                                          IF status = "completed" THEN now ELSE @]
       /\ orders' = IF status = "completed" THEN MarkPaid(orders, payments[id].orderId)
                    ELSE orders
       /\ last' = Answer("updatePaymentStatus", user, id, {"status"}, "Ok")
       /\ UNCHANGED <<files, accounts, inventory, now, services, nextOrderId, nextPaymentId, inflight>>

NoAmount == 0   \* a refund request without an amount

RECURSIVE SumRefunds(_, _)
SumRefunds(refunds, i) ==
  IF i > Len(refunds) THEN 0 ELSE refunds[i].amount + SumRefunds(refunds, i + 1)

\* refundPayment line 757: the only test on the amount
RefundTooLargeNever(refundAmount, payment) == FALSE
RefundTooLarge(refundAmount, payment) == refundAmount > payment.amount

\* refundPayment lines 774-785: the record pushed and the status that follows
RefundedWhenExceeded(payment, refundAmount, t) ==
  LET refunds == Append(payment.refunds, [amount |-> refundAmount, refundedAt |-> t])
  IN [payment EXCEPT !.refunds = refunds,
                     !.status = IF SumRefunds(refunds, 1) > payment.amount
                                THEN "refunded" ELSE @]
Refunded(payment, refundAmount, t) ==
  LET refunds == Append(payment.refunds, [amount |-> refundAmount, refundedAt |-> t])
  IN [payment EXCEPT !.refunds = refunds,
                     !.status = IF SumRefunds(refunds, 1) >= payment.amount
                                THEN "refunded" ELSE @]

RefundPayment(user, id, amount, providerAnswers) ==
  IF ~Authorize(user, {"admin"})
  THEN RejectP("refundPayment", user, id, {}, "Forbidden")
  ELSE IF id \notin DOMAIN payments
  THEN RejectP("refundPayment", user, id, {}, "NotFound")
  ELSE LET payment == payments[id]
           refundAmount == IF amount # NoAmount THEN amount ELSE payment.amount
       IN IF payment.status # "completed"
          THEN RejectP("refundPayment", user, id, {}, "BadRequest")
          ELSE IF RefundTooLarge(refundAmount, payment)
          THEN RejectP("refundPayment", user, id, {}, "BadRequest")
          ELSE IF payment.method = "mvola" /\ ~providerAnswers
          THEN RejectP("refundPayment", user, id, {}, "BadRequest")
          ELSE /\ Len(payment.refunds) < MaxRefunds
               /\ payments' = [payments EXCEPT ![id] = Refunded(payment, refundAmount, now)]
               /\ last' = Answer("refundPayment", user, id, {}, "Ok")
               /\ UNCHANGED <<files, accounts, inventory, now, services, orders, nextOrderId, nextPaymentId, inflight>>

\* String.prototype.toUpperCase on the statuses the provider sends
ToUpperCase(str) ==
  CASE str = "success" -> "SUCCESS"
    [] str = "refunded" -> "REFUNDED"
    [] OTHER -> str

\* MvolaService.mapMvolaStatus
mapMvolaStatus(mvolaStatus) ==
  LET up == ToUpperCase(mvolaStatus)
  IN CASE up = "PENDING" -> "pending"
       [] up = "PROCESSING" -> "processing"
       [] up = "SUCCESS" -> "completed"
       [] up = "COMPLETED" -> "completed"
       [] up = "FAILED" -> "failed"
       [] up = "CANCELLED" -> "cancelled"
       [] up = "REFUNDED" -> "refunded"
       [] OTHER -> "failed"

\* Payment.findOne({'mvolaTransaction.transactionId': ...})
ByTransaction(transactionId) ==
  {i \in DOMAIN payments : payments[i].mvolaTransaction.transactionId = transactionId}

\* mvolaCallback with MvolaService.handleCallback; the route is public, so the
\* caller is nobody
MvolaCallback(transactionId, status, signatureOk) ==
  IF ~signatureOk \/ ByTransaction(transactionId) = {}
  THEN RejectP("mvolaCallback", NoValue, transactionId, {"status"}, "BadRequest")
  ELSE LET id == CHOOSE i \in ByTransaction(transactionId) : TRUE
           mapped == mapMvolaStatus(status)
       IN /\ payments' = [payments EXCEPT ![id].status = mapped,
                                          ![id].mvolaTransaction.status = status,
                                          ![id].processedAt = now]
          /\ orders' = IF mapped = "completed" THEN MarkPaid(orders, payments[id].orderId)
                       ELSE orders
          /\ last' = Answer("mvolaCallback", NoValue, id, {"status"}, "Ok")
          /\ UNCHANGED <<files, accounts, inventory, now, services, nextOrderId, nextPaymentId, inflight>>

----------------------------------------------------------------------------
(* Specification of one payment: an order of c1, a payment against it, then the
   administrator, the refunds and the provider's callbacks *)

Amounts == {100, 200}
RefundAmounts == {NoAmount, 100, 200, 300}
CallbackStatuses == {"SUCCESS", "success", "REFUNDED", "PENDING", "unknown"}
PaymentIds == 1..MaxPayments

NextPay ==
  \/ DOMAIN orders = {} /\ CreateOrder("c1", CreateReq(<<GoodItem>>, NoValue))
  \/ \E u \in Users, id \in OrderIds, a \in Amounts, m \in PaymentMethods, ok \in BOOLEAN :
       DOMAIN payments = {} /\ CreatePayment(u, id, a, m, ok)
  \/ \E u \in Users, id \in DOMAIN payments, st \in PaymentStatuses :
       UpdatePaymentStatus(u, id, st)
  \/ \E u \in Users, id \in DOMAIN payments, a \in RefundAmounts, ok \in BOOLEAN :
       RefundPayment(u, id, a, ok)
  \/ \E tx \in PaymentIds, st \in CallbackStatuses, ok \in BOOLEAN : MvolaCallback(tx, st, ok)

SpecPay == Init /\ [][NextPay]_vars

RefundTotal(payment) ==
  LET S[i \in 0..Len(payment.refunds)] ==
        IF i = 0 THEN 0 ELSE S[i - 1] + payment.refunds[i].amount
  IN S[Len(payment.refunds)]

\* C1 as claimed: the amounts recorded in payment.refunds never sum to more than
\* payment.amount.
C1_RefundsWithinAmount ==
  \A id \in DOMAIN payments : RefundTotal(payments[id]) <= payments[id].amount

\* C10 as claimed: a payment whose status is refunded has recorded refunds that
\* sum to at least the payment amount.
C10_RefundedMeansRefundedInFull ==
  \A id \in DOMAIN payments :
    payments[id].status = "refunded" => RefundTotal(payments[id]) >= payments[id].amount

\* the step is the answer to a refundPayment request with this amount
RefundRequest(a) ==
  /\ last'.op = "refundPayment" /\ last'.id \in DOMAIN payments
  /\ \E ok \in BOOLEAN : RefundPayment(last'.user, last'.id, a, ok)

\* C11: an accepted refundPayment on a completed payment leaves the status
\* completed while the recorded refunds sum to less than the payment amount, and
\* sets it to refunded in the request that brings the sum to the amount or above.
C11_StatusFollowsRefundTotal ==
  [][\A a \in RefundAmounts :
       (RefundRequest(a) /\ last'.code = "Ok" /\ payments[last'.id].status = "completed")
         => LET after == payments'[last'.id]
            IN /\ Len(after.refunds) = Len(payments[last'.id].refunds) + 1
               /\ RefundTotal(after) < after.amount => after.status = "completed"
               /\ RefundTotal(after) >= after.amount => after.status = "refunded"]_vars

\* a partial refund left the payment completed, and the refund just accepted
\* brought the sum exactly to the amount and made the payment refunded
C11_Witness ==
  /\ last.op = "refundPayment" /\ last.code = "Ok" /\ last.id \in DOMAIN payments
  /\ LET p == payments[last.id]
     IN /\ Len(p.refunds) = 2
        /\ p.refunds[1].amount < p.amount
        /\ RefundTotal(p) = p.amount
        /\ p.status = "refunded"

\* C12: refundPayment on a payment that is not completed, or with an amount
\* greater than the payment amount, is rejected and leaves the payments as they
\* were; an accepted request without an amount records the full payment amount.
C12_RefundRejected ==
  [][\A a \in RefundAmounts :
       RefundRequest(a)
         => LET p == payments[last'.id]
            IN /\ (p.status # "completed" \/ a > p.amount)
                    => last'.code \in {"BadRequest", "Forbidden"} /\ payments' = payments
               /\ (a = NoAmount /\ last'.code = "Ok")
                    => payments'[last'.id].refunds[Len(p.refunds) + 1].amount = p.amount]_vars

\* refunds were rejected: one asked of a completed card payment can only have
\* been refused for its amount, and one without an amount recorded the full amount
C12_Witness ==
  /\ last.op = "refundPayment" /\ last.code = "BadRequest" /\ last.id \in DOMAIN payments
  /\ LET p == payments[last.id]
     IN /\ p.status = "completed" /\ p.method = "card"
        /\ Len(p.refunds) = 1 /\ p.refunds[1].amount < p.amount

----------------------------------------------------------------------------
(* Specification of sequential numbering: orders created one after another,
   with edits, status changes and deletions in between, over several days *)

NextSeq ==
  \/ CreateOrder("c1", CreateReq(<<GoodItem>>, NoValue))
  \/ \E id \in DOMAIN orders :
       UpdateOrder("c1", id, UpdateReq({}, "note", NoValue, NoValue, NoValue))
  \/ \E id \in DOMAIN orders : UpdateOrder("a1", id, StatusReq("cancelled"))
  \/ \E u \in {"c1", "a1"}, id \in DOMAIN orders : DeleteOrder(u, id)
  \/ Tick

SpecSeq == Init /\ [][NextSeq]_vars

\* C8 as claimed: when orders are created one after another, every creation
\* generates an order number that no stored order has.
C8_FreshNumber ==
  [][\A u \in Clients, l \in ItemLists :
       (CreateOrder(u, CreateReq(l, NoValue)) /\ last'.code \in {"Created", "Conflict"})
         => generateOrderNumber(orders, now) \notin OrderNumbers]_vars

----------------------------------------------------------------------------
(* createOrder and createPayment, split where the pre-save hook awaits
   countDocuments: the count is read in one step, the insert happens in another *)

\* createOrder up to the count: the items are resolved, the document is built,
\* the hook has read the count and built the number
BeginCreateOrder(user, req) ==
  /\ nextOrderId + BagCardinality(Suspended("order")) <= MaxOrders
  /\ BagCardinality(Suspended("order")) < MaxInflight
  /\ CreateOrderValid(req)
  /\ CreateItemErrors(req.items) = {}
  /\ LET count == CountCreatedOn(orders, DayOf(now))
         doc == calculateTotals([NewOrder(user, req, now)
                                   EXCEPT !.orderNumber = OrderNumberFor(count, now)])
     IN inflight' = inflight (+)
          SetToBag({[kind |-> "order", user |-> user, count |-> count, doc |-> doc]})
  /\ UNCHANGED <<files, accounts, inventory, now, services, orders, nextOrderId, payments, nextPaymentId, last>>

\* the insert: the unique index on orderNumber refuses a number already stored
FinishCreateOrder(r) ==
  /\ r \in DOMAIN Suspended("order")
  /\ IF r.doc.orderNumber \in OrderNumbers
     THEN /\ last' = Answer("createOrder", r.user, 0, {"items"}, "Conflict")
          /\ UNCHANGED <<files, accounts, inventory, orders, nextOrderId>>
     ELSE /\ orders' = orders @@ (nextOrderId :> r.doc)
          /\ nextOrderId' = nextOrderId + 1
          /\ last' = Answer("createOrder", r.user, nextOrderId, {"items"}, "Created")
  /\ inflight' = inflight (-) SetToBag({r})
  /\ UNCHANGED <<files, accounts, inventory, now, services, payments, nextPaymentId>>

BeginCreatePayment(user, orderId, amount, method) ==
  /\ nextPaymentId + BagCardinality(Suspended("payment")) <= MaxPayments
  /\ BagCardinality(Suspended("payment")) < MaxInflight
  /\ orderId \in DOMAIN orders
  /\ orders[orderId].clientId = user
  /\ LET count == CountCreatedOn(payments, DayOf(now))
         doc == [NewPayment(user, orderId, amount, method, now)
                   EXCEPT !.paymentNumber = PaymentNumberFor(count, now)]
     IN inflight' = inflight (+)
          SetToBag({[kind |-> "payment", user |-> user, count |-> count, doc |-> doc]})
  /\ UNCHANGED <<files, accounts, inventory, now, services, orders, nextOrderId, payments, nextPaymentId, last>>

FinishCreatePayment(r, providerAnswers) ==
  /\ r \in DOMAIN Suspended("payment")
  /\ InsertPayment(r.user, r.doc, providerAnswers)
  /\ inflight' = inflight (-) SetToBag({r})
  /\ UNCHANGED <<files, accounts, inventory, now, services, orders, nextOrderId>>

NextConc ==
  \/ BeginCreateOrder("c1", CreateReq(<<GoodItem>>, NoValue))
  \/ \E r \in DOMAIN inflight : FinishCreateOrder(r)
  \/ \E id \in DOMAIN orders : BeginCreatePayment("c1", id, 100, "card")
  \/ \E r \in DOMAIN inflight : FinishCreatePayment(r, TRUE)
  \/ Tick

SpecConc == Init /\ [][NextConc]_vars

Number(r) == IF r.kind = "order" THEN r.doc.orderNumber ELSE r.doc.paymentNumber

\* C9: two createOrder requests, or two createPayment requests, that are
\* suspended together having read the same count on the same day hold the same
\* generated number.
C9_SameCountSameNumber ==
  \A r1, r2 \in DOMAIN inflight :
    (/\ r1.kind = r2.kind
     /\ r1.count = r2.count
     /\ DayOf(r1.doc.createdAt) = DayOf(r2.doc.createdAt))
      => Number(r1) = Number(r2)

\* two createOrder requests and two createPayment requests are suspended, each
\* pair holding one number
C9_Witness ==
  \E r1, r2, r3, r4 \in DOMAIN inflight :
    /\ r1.kind = "order" /\ r2.kind = "order"
    /\ (r1 # r2 \/ inflight[r1] >= 2)
    /\ r1.doc.orderNumber = r2.doc.orderNumber
    /\ r3.kind = "payment" /\ r4.kind = "payment"
    /\ (r3 # r4 \/ inflight[r3] >= 2)
    /\ r3.doc.paymentNumber = r4.doc.paymentNumber

----------------------------------------------------------------------------
(* createPayment by mobile money, split where it awaits the provider: the
   payment is stored pending by Payment.create, the provider is called, and the
   second save writes the status the call led to *)

\* createPayment up to mvolaService.initiatePayment, for a request that passes
\* the order lookup and the ownership test
BeginInitiate(user, orderId, amount) ==
  /\ nextPaymentId <= MaxPayments
  /\ BagCardinality(Suspended("initiate")) < MaxInflight
  /\ orderId \in DOMAIN orders
  /\ orders[orderId].clientId = user
  /\ LET doc == [NewPayment(user, orderId, amount, "mvola", now)
                   EXCEPT !.paymentNumber = generatePaymentNumber(payments, now)]
     IN /\ doc.paymentNumber \notin PaymentNumbers
        /\ payments' = payments @@ (nextPaymentId :> doc)
        /\ inflight' = inflight (+)
             SetToBag({[kind |-> "initiate", user |-> user, id |-> nextPaymentId, doc |-> doc]})
  /\ nextPaymentId' = nextPaymentId + 1
  /\ UNCHANGED <<files, accounts, inventory, now, services, orders, nextOrderId, last>>

\* the provider's answer or failure, payment.save() of the paths the handler
\* assigned, and the response
FinishInitiate(r, providerAnswers) ==
  /\ r \in DOMAIN Suspended("initiate")
  /\ LET saved == AfterInsert(r.doc, r.id, providerAnswers)
     IN payments' = [payments EXCEPT ![r.id].status = saved.status,
                                     ![r.id].mvolaTransaction =
                                        IF providerAnswers THEN saved.mvolaTransaction ELSE @]
  /\ last' = Answer("createPayment", r.user, r.id, {},
                    IF providerAnswers THEN "Created" ELSE "BadRequest")
  /\ inflight' = inflight (-) SetToBag({r})
  /\ UNCHANGED <<files, accounts, inventory, now, services, orders, nextOrderId, nextPaymentId>>

NextInitiate ==
  \/ DOMAIN orders = {} /\ CreateOrder("c1", CreateReq(<<GoodItem>>, NoValue))
  \/ \E u \in Clients, id \in OrderIds : DOMAIN payments = {} /\ BeginInitiate(u, id, 100)
  \/ \E r \in DOMAIN inflight, ok \in BOOLEAN : FinishInitiate(r, ok)
  \/ \E u \in Users, id \in DOMAIN payments, st \in PaymentStatuses :
       UpdatePaymentStatus(u, id, st)
  \/ \E u \in Users, id \in DOMAIN payments : RefundPayment(u, id, NoAmount, TRUE)
  \/ \E tx \in PaymentIds, st \in CallbackStatuses, ok \in BOOLEAN : MvolaCallback(tx, st, ok)
  \/ \E id \in DOMAIN orders : DeleteOrder("a1", id)

SpecInitiate == Init /\ [][NextInitiate]_vars

\* the step belongs to a request made with role client
ClientPaymentStep ==
  \E u \in Clients :
    \/ \E id \in OrderIds : BeginInitiate(u, id, 100)
    \/ \E r \in DOMAIN inflight, ok \in BOOLEAN : r.user = u /\ FinishInitiate(r, ok)
    \/ \E id \in DOMAIN payments, st \in PaymentStatuses : UpdatePaymentStatus(u, id, st)
    \/ \E id \in DOMAIN payments : RefundPayment(u, id, NoAmount, TRUE)

\* a client's updatePaymentStatus is refused and leaves the payments as they were
ClientStatusUpdateForbidden ==
  \A u \in Clients, id \in DOMAIN payments, st \in PaymentStatuses :
    UpdatePaymentStatus(u, id, st) => last'.code = "Forbidden" /\ payments' = payments

StatusRequest(id) ==
  /\ last'.id = id /\ last'.code = "Ok"
  /\ \/ \E u \in Users, st \in PaymentStatuses : UpdatePaymentStatus(u, id, st)
     \/ \E tx \in PaymentIds, st \in CallbackStatuses, ok \in BOOLEAN : MvolaCallback(tx, st, ok)

\* C15: when updatePaymentStatus or a provider callback with a success status
\* makes a payment completed, the order the payment references (while it is
\* stored) has paymentStatus paid at the end of that request.
C15_CompletionMarksOrderPaid ==
  [][\A id \in DOMAIN payments :
       (/\ StatusRequest(id)
        /\ payments'[id].status = "completed"
        /\ payments[id].orderId \in DOMAIN orders)
         => /\ payments[id].orderId \in DOMAIN orders'
            /\ orders'[payments[id].orderId].paymentStatus = "paid"]_vars

\* a callback with a success status has just completed a payment that was
\* processing an order not yet paid
C15_Witness ==
  /\ last.op = "mvolaCallback" /\ last.code = "Ok" /\ last.id \in DOMAIN payments
  /\ payments[last.id].status = "completed"
  /\ payments[last.id].mvolaTransaction.status \in {"SUCCESS", "success"}
  /\ payments[last.id].orderId \in DOMAIN orders
  /\ orders[payments[last.id].orderId].paymentStatus = "paid"

----------------------------------------------------------------------------
(* Specification of fees: payments of several amounts by every method against
   one order *)

AllPaymentMethods == {"mvola", "card", "transfer", "cash", "check"}
FeeAmounts == {100, 300, 25000}

NextFees ==
  \/ DOMAIN orders = {} /\ CreateOrder("c1", CreateReq(<<GoodItem>>, NoValue))
  \/ \E id \in DOMAIN orders, a \in FeeAmounts, m \in AllPaymentMethods, ok \in BOOLEAN :
       CreatePayment("c1", id, a, m, ok)

SpecFees == Init /\ [][NextFees]_vars

\* C18: every stored payment has processingFee = 2 % of the amount by mobile
\* money and 3 % by any other method, platformFee = 1 % of the amount and
\* totalFees = processingFee + platformFee; 25000 by card gives 750, 250, 1000.
C18_Fees ==
  \A id \in DOMAIN payments :
    LET p == payments[id]
    IN /\ p.fees.processingFee * 100 = p.amount * (IF p.method = "mvola" THEN 2 ELSE 3)
       /\ p.fees.platformFee * 100 = p.amount
       /\ p.fees.totalFees = p.fees.processingFee + p.fees.platformFee
       /\ (p.amount = 25000 /\ p.method = "card")
            => p.fees = [processingFee |-> 750, platformFee |-> 250, totalFees |-> 1000]

\* 25000 was paid by card and another payment was made by mobile money
C18_Witness ==
  /\ \E id \in DOMAIN payments :
       /\ payments[id].amount = 25000 /\ payments[id].method = "card"
       /\ payments[id].fees.totalFees = 1000
  /\ \E id \in DOMAIN payments :
       /\ payments[id].method = "mvola"
       /\ payments[id].fees.processingFee * 50 = payments[id].amount

----------------------------------------------------------------------------
(* Specification of an order's later life: one order at a time is edited,
   moved through statuses, quoted, invoiced, paid and deleted *)

NextLater ==
  \/ DOMAIN orders = {} /\ CreateOrder("c1", CreateReq(<<GoodItem>>, NoValue))
  \/ \E id \in DOMAIN orders :
       UpdateOrder("c1", id, UpdateReq({<<ItemReq("s1", 3, {})>>}, "note", NoValue, NoValue, NoValue))
  \/ \E id \in DOMAIN orders, st \in {"confirmed", "delivered"} :
       UpdateOrder("a1", id, StatusReq(st))
  \/ \E id \in DOMAIN orders : GenerateQuote("a1", id)
  \/ \E id \in DOMAIN orders : GenerateInvoice("a1", id)
  \/ \E id \in DOMAIN orders : CreatePayment("c1", id, 100, "card", TRUE)
  \/ \E id \in DOMAIN payments : UpdatePaymentStatus("a1", id, "completed")
  \/ \E id \in DOMAIN orders : DeleteOrder("a1", id)

SpecLater == Init /\ [][NextLater]_vars

\* C19: an order's orderNumber is assigned when the order is first stored, and
\* no later operation (updateOrder, updateStatus, generateQuote,
\* generateInvoice, payment completion) changes it.
C19_OrderNumberKept ==
  [][/\ \A id \in DOMAIN orders' \ DOMAIN orders :
          orders'[id].orderNumber = generateOrderNumber(orders, now)
     /\ \A id \in DOMAIN orders \cap DOMAIN orders' :
          orders'[id].orderNumber = orders[id].orderNumber]_vars

\* an order that was edited, delivered, quoted, invoiced and paid
C19_Witness ==
  \E id \in DOMAIN orders :
    /\ orders[id].notes = "note"
    /\ orders[id].deliveredAt # NoDate
    /\ orders[id].quoteDocument = QuoteFile(orders[id])
    /\ orders[id].invoiceDocument = InvoiceFile(orders[id])
    /\ orders[id].paymentStatus = "paid"
    /\ orders[id].orderNumber = OrderNumberFor(0, orders[id].createdAt)

\* the fulfilment chain, in order
StatusChain ==
  <<"draft", "quote", "pending", "confirmed", "in_production", "ready", "shipped", "delivered">>

RankOf(status) == CHOOSE i \in 1..Len(StatusChain) : StatusChain[i] = status

\* a move forward along the chain, or to cancelled from a status that is not terminal
MovesOneWay(from, to) ==
  \/ to = from
  \/ to = "cancelled" /\ from # "delivered"
  \/ from # "cancelled" /\ to # "cancelled" /\ RankOf(from) < RankOf(to)

\* C20 as claimed: an order's status only moves forward along draft, quote,
\* pending, confirmed, in_production, ready, shipped, delivered, or to cancelled
\* from a status that is not terminal; no updateOrder or generateQuote request
\* moves it back or out of delivered or cancelled.
C20_StatusOneWay ==
  [][\A id \in DOMAIN orders \cap DOMAIN orders' :
       MovesOneWay(orders[id].status, orders'[id].status)]_vars

----------------------------------------------------------------------------
(* Specification of ownership: each client has at most one order; every client
   reads, edits and deletes every order and pays against it, and the
   administrator confirms orders *)

NextOwner ==
  \/ \E u \in Clients :
       /\ \A i \in DOMAIN orders : orders[i].clientId # u
       /\ CreateOrder(u, CreateReq(<<GoodItem>>, NoValue))
  \/ \E u \in Clients, id \in OrderIds : GetOrderById(u, id)
  \/ \E u \in Clients, id \in DOMAIN orders :
       UpdateOrder(u, id, UpdateReq({<<ItemReq("s1", 3, {})>>}, "note", NoValue, NoValue, NoValue))
  \/ \E id \in DOMAIN orders : UpdateOrder("a1", id, StatusReq("confirmed"))
  \/ \E u \in Clients, id \in DOMAIN orders : DeleteOrder(u, id)
  \/ \E u \in Clients, id \in DOMAIN orders : CreatePayment(u, id, 100, "card", TRUE)

SpecOwner == Init /\ [][NextOwner]_vars

\* the step answers a request of user u about order id through one of the four
\* handlers
OrderRequest(u, id) ==
  /\ last'.user = u
  /\ \/ last'.id = id /\ GetOrderById(u, id)
     \/ last'.id = id /\ \E r \in EditInputs \cup
            {UpdateReq({<<ItemReq("s1", 3, {})>>}, "note", NoValue, NoValue, NoValue)} :
          UpdateOrder(u, id, r)
     \/ last'.id = id /\ DeleteOrder(u, id)
     \/ last'.op = "createPayment" /\ CreatePayment(u, id, 100, "card", TRUE)

\* C16: a client's getOrderById, updateOrder, deleteOrder and createPayment on
\* an order whose clientId is another user answer Forbidden and leave the
\* orders and the payments as they were.
C16_ForeignOrderForbidden ==
  [][\A u \in Clients, id \in DOMAIN orders :
       (orders[id].clientId # u /\ OrderRequest(u, id))
         => last'.code = "Forbidden" /\ orders' = orders /\ payments' = payments]_vars

\* a client was refused a payment against the draft order of another client,
\* who has already paid against it
C16_Witness ==
  /\ last.op = "createPayment" /\ last.code = "Forbidden" /\ last.user \in Clients
  /\ \E id \in DOMAIN orders :
       /\ orders[id].clientId \in Clients \ {last.user}
       /\ orders[id].status = "draft"
       /\ \E p \in DOMAIN payments : payments[p].orderId = id
  /\ \E id \in DOMAIN orders : orders[id].clientId = last.user

----------------------------------------------------------------------------
(* Files: the FileDocument collection, FileProcessingService and the file
   controller.  What is on disk behind a file is part of its record: "ok",
   "corrupt" (sharp cannot read it) or "missing" (statSync throws). *)

FileStatuses == {"uploaded", "processing", "validated", "rejected", "converted"}

SupportedFormats ==
  {".jpg", ".jpeg", ".png", ".gif", ".bmp", ".tiff", ".tif",
   ".pdf", ".ai", ".eps", ".psd", ".indd", ".svg"}

LargeFileSize == 100   \* megabytes
MinDensity == 150      \* DPI
MinDimension == 300    \* pixels

IsImage(mimetype) == mimetype \in {"image/png", "image/jpeg"}

Issue(type, message) == [type |-> type, message |-> message]

HasError(issues) == \E i \in 1..Len(issues) : issues[i].type = "error"

\* the schema default of validationResults
NoValidation == [isValid |-> FALSE, issues |-> << >>]

\* FileProcessingService.validateFile: the issues in the order they are pushed
validateFileAcceptingFormats(f) == [isValid |-> TRUE, issues |-> << >>]
validateFile(f) ==
  LET sizeIssues == IF f.size > LargeFileSize
                    THEN <<Issue("warning", "large")>> ELSE << >>
      thrown == <<Issue("error", "validation")>>
  IN IF f.disk = "missing"
     THEN [isValid |-> FALSE, issues |-> thrown]
     ELSE IF IsImage(f.mimetype) /\ f.disk = "corrupt"
     THEN [isValid |-> FALSE, issues |-> sizeIssues \o thrown]
     ELSE LET density == IF IsImage(f.mimetype) /\ f.density # 0 /\ f.density < MinDensity
                         THEN <<Issue("warning", "density")>> ELSE << >>
              small == IF /\ IsImage(f.mimetype) /\ f.width # 0 /\ f.height # 0
                          /\ (f.width < MinDimension \/ f.height < MinDimension)
                       THEN <<Issue("warning", "dimensions")>> ELSE << >>
              format == IF f.ext \notin SupportedFormats
                        THEN <<Issue("error", "format")>> ELSE << >>
              issues == sizeIssues \o density \o small \o format
          IN [isValid |-> ~HasError(issues), issues |-> issues]

\* what multer hands to uploadFile: the declared type, the extension of the
\* original name, and what the bytes are
Upload(mimetype, ext, size, density, width, disk) ==
  [mimetype |-> mimetype, ext |-> ext, size |-> size, density |-> density,
   width |-> width, height |-> width, disk |-> disk]

Uploads ==
  { Upload("image/png", ".png", 1, 300, 1000, "ok"),
    Upload("image/jpeg", ".jpg", 200, 72, 100, "ok"),
    Upload("image/png", ".webp", 1, 300, 1000, "ok"),
    Upload("application/pdf", ".pdf", 200, 0, 0, "ok"),
    Upload("text/plain", ".txt", 1, 0, 0, "ok"),
    Upload("image/png", ".png", 200, 0, 0, "corrupt"),
    Upload("image/png", ".png", 1, 0, 0, "missing") }


\* the model follows one uploaded file
FileIds == {1}

\* FileDocument.create in uploadFile
NewFile(id, user, up) ==
  [originalName |-> <<"design", up.ext>>,
   filename |-> <<"file-", id, up.ext>>,
   path |-> <<"uploads/", "file-", id, up.ext>>,
   mimetype |-> up.mimetype, ext |-> up.ext, size |-> up.size,
   density |-> up.density, width |-> up.width, height |-> up.height, disk |-> up.disk,
   uploadedBy |-> user,
   status |-> "uploaded",
   versions |-> << >>,
   validationResults |-> NoValidation,
   isActive |-> TRUE]

AnswerF(op, user, id, code) ==
  /\ last' = Answer(op, user, id, {}, code)
  /\ UNCHANGED <<now, services, orders, nextOrderId, payments, nextPaymentId,
                 accounts, inventory>>

RejectF(op, user, id, code) ==
  /\ AnswerF(op, user, id, code)
  /\ UNCHANGED <<files, inflight>>

\* the test the controllers make on a client
MayUseFile(f, user) == ~(RoleOf(user) = "client" /\ f.uploadedBy # user)

\* uploadFile: the record, the background task set off, the answer
UploadFile(user, up) ==
  /\ DOMAIN files = {}
  /\ LET id == 1
     IN /\ files' = files @@ (id :> NewFile(id, user, up))
        /\ inflight' = inflight (+) SetToBag({[kind |-> "process", id |-> id]})
        /\ AnswerF("uploadFile", user, id, "Created")

\* FileProcessingService.processFile: the save of its results, or, when the save
\* throws, the update of the failure path
processFileDropped(task, saveThrows) ==
  /\ task \in DOMAIN Suspended("process")
  /\ inflight' = inflight (-) SetToBag({task})
  /\ UNCHANGED <<now, services, orders, nextOrderId, payments, nextPaymentId,
                 files, accounts, inventory, last>>
processFile(task, saveThrows) ==
  /\ task \in DOMAIN Suspended("process")
  /\ LET f == files[task.id]
         results == validateFile(f)
     IN files' =
          IF saveThrows
          THEN [files EXCEPT ![task.id].status = "rejected",
                             ![task.id].validationResults =
                                [isValid |-> FALSE,
                                 issues |-> <<Issue("error", "processing")>>]]
          ELSE [files EXCEPT ![task.id].validationResults = results,
                             ![task.id].status =
                                IF results.isValid THEN "validated" ELSE "rejected"]
  /\ inflight' = inflight (-) SetToBag({task})
  /\ UNCHANGED <<now, services, orders, nextOrderId, payments, nextPaymentId,
                 accounts, inventory, last>>

\* the controller's validateFile
ValidateFile(user, id) ==
  IF id \notin DOMAIN files
  THEN RejectF("validateFile", user, id, "NotFound")
  ELSE LET results == validateFile(files[id])
       IN /\ files' = [files EXCEPT ![id].validationResults = results,
                                    ![id].status =
                                       IF results.isValid THEN "validated" ELSE "rejected"]
          /\ AnswerF("validateFile", user, id, "Ok")
          /\ UNCHANGED inflight

\* the version a handler pushes: numbered from the array it loaded
NewVersion(len, changes, user) ==
  [version |-> len + 1, changes |-> changes, createdBy |-> user, createdAt |-> now]

\* FileProcessingService.convertFile returns a path rather than throwing
Converts(f, target) ==
  /\ IsImage(f.mimetype)
  /\ target \in {"jpg", "jpeg", "png", "webp", "tiff"}
  /\ f.disk = "ok"

\* FileProcessingService.optimizeForPrint returns a path rather than throwing
Optimizes(f) == IsImage(f.mimetype) /\ f.disk = "ok"

\* a handler suspended after it loaded the file: what it keeps of the document
Loaded(kind, user, id, target) ==
  [kind |-> kind, user |-> user, id |-> id, target |-> target,
   len |-> Len(files[id].versions)]

\* convertFile, optimizeFileForPrint and createFileVersion up to the first await
\* after findById: the permission test and, for the first two, the save of
\* status 'processing'
BeginVersion(kind, op, user, id, target) ==
  /\ BagCardinality(inflight) < MaxInflight
  /\ IF id \notin DOMAIN files
     THEN RejectF(op, user, id, "NotFound")
     ELSE IF ~MayUseFile(files[id], user)
     THEN RejectF(op, user, id, "Forbidden")
     ELSE /\ Len(files[id].versions) + BagCardinality(inflight) < MaxVersions
          /\ files' = IF kind = "version" THEN files
                      ELSE [files EXCEPT ![id].status = "processing"]
          /\ inflight' = inflight (+) SetToBag({Loaded(kind, user, id, target)})
          /\ UNCHANGED <<now, services, orders, nextOrderId, payments, nextPaymentId,
                         accounts, inventory, last>>

BeginConvertFile(user, id, target) ==
  BeginVersion("convert", "convertFile", user, id, target)

BeginOptimizeFileForPrint(user, id) ==
  BeginVersion("optimize", "optimizeFileForPrint", user, id, NoValue)

BeginCreateFileVersion(user, id) ==
  BeginVersion("version", "createFileVersion", user, id, NoValue)

\* save() of a document whose versions array was pushed to: the $push lands on
\* the stored array, whatever its length was when the document was loaded
PushVersion(f, v) == [f EXCEPT !.versions = Append(f.versions, v)]

\* the rest of convertFile: the conversion, then the version and status
\* 'converted', or status 'rejected' when the conversion throws
FinishConvertFile(r) ==
  /\ r \in DOMAIN Suspended("convert")
  /\ inflight' = inflight (-) SetToBag({r})
  /\ IF Converts(files[r.id], r.target)
     THEN /\ files' = [files EXCEPT ![r.id] =
                         [PushVersion(@, NewVersion(r.len, "convert", r.user))
                            EXCEPT !.status = "converted"]]
          /\ AnswerF("convertFile", r.user, r.id, "Ok")
     ELSE /\ files' = [files EXCEPT ![r.id].status = "rejected"]
          /\ AnswerF("convertFile", r.user, r.id, "Internal")

\* the rest of optimizeFileForPrint
FinishOptimizeFileForPrint(r) ==
  /\ r \in DOMAIN Suspended("optimize")
  /\ inflight' = inflight (-) SetToBag({r})
  /\ IF Optimizes(files[r.id])
     THEN /\ files' = [files EXCEPT ![r.id] =
                         [PushVersion(@, NewVersion(r.len, "optimize", r.user))
                            EXCEPT !.status = "validated"]]
          /\ AnswerF("optimizeFileForPrint", r.user, r.id, "Ok")
     ELSE /\ files' = [files EXCEPT ![r.id].status = "rejected"]
          /\ AnswerF("optimizeFileForPrint", r.user, r.id, "Internal")

\* the rest of createFileVersion
FinishCreateFileVersion(r) ==
  /\ r \in DOMAIN Suspended("version")
  /\ inflight' = inflight (-) SetToBag({r})
  /\ files' = [files EXCEPT ![r.id] =
                 PushVersion(@, NewVersion(r.len, "upload", r.user))]
  /\ AnswerF("createFileVersion", r.user, r.id, "Ok")

\* deleteFile marks the record inactive
DeleteFile(user, id) ==
  IF id \notin DOMAIN files
  THEN RejectF("deleteFile", user, id, "NotFound")
  ELSE IF ~MayUseFile(files[id], user)
  THEN RejectF("deleteFile", user, id, "Forbidden")
  ELSE /\ files' = [files EXCEPT ![id].isActive = FALSE]
       /\ AnswerF("deleteFile", user, id, "Deleted")
       /\ UNCHANGED inflight

----------------------------------------------------------------------------
(* SpecFiles: uploads, their background processing, and the requests on the
   stored files, one step of a handler at a time *)

NextFiles ==
  \/ \E up \in Uploads : UploadFile("c1", up)
  \/ \E t \in DOMAIN Suspended("process"), saveThrows \in BOOLEAN : processFile(t, saveThrows)
  \/ \E id \in FileIds : ValidateFile("c1", id)
  \/ \E id \in FileIds, t \in {"png", "pdf"} : BeginConvertFile("c1", id, t)
  \/ \E r \in DOMAIN Suspended("convert") : FinishConvertFile(r)
  \/ \E id \in FileIds : BeginOptimizeFileForPrint("c1", id)
  \/ \E r \in DOMAIN Suspended("optimize") : FinishOptimizeFileForPrint(r)
  \/ \E u \in {"c1", "c2"}, id \in FileIds : BeginCreateFileVersion(u, id)
  \/ \E r \in DOMAIN Suspended("version") : FinishCreateFileVersion(r)
  \/ \E id \in FileIds : DeleteFile("c1", id)

SpecFiles == Init /\ [][NextFiles]_vars

\* a step that produces a validation result for file id: the background
\* processing, on either of its paths, or a validateFile request
ProducesResult(id) ==
  \/ \E t \in DOMAIN Suspended("process"), saveThrows \in BOOLEAN :
       t.id = id /\ processFile(t, saveThrows)
  \/ /\ last'.op = "validateFile" /\ last'.code = "Ok" /\ last'.id = id
     /\ ValidateFile(last'.user, id)

\* C22: every validation result produced for a file has isValid true exactly
\* when none of its issues is of type error, and a file whose extension is not
\* a supported one gets an error issue and isValid false.
C22_ValidIffNoError ==
  [][\A id \in DOMAIN files :
       ProducesResult(id)
         => LET v == files'[id].validationResults
            IN /\ v.isValid <=> ~HasError(v.issues)
               /\ files[id].ext \notin SupportedFormats
                    => HasError(v.issues) /\ ~v.isValid]_vars

C22_Witness ==
  /\ last.op = "validateFile" /\ last.code = "Ok" /\ last.id \in DOMAIN files
  /\ files[last.id].ext = ".webp"
  /\ files[last.id].validationResults =
       [isValid |-> FALSE, issues |-> <<Issue("error", "format")>>]
  /\ files[last.id].status = "rejected"

\* the versions of a file are numbered 1, 2, ..., n in the order of the array
Sequential(versions) == \A k \in 1..Len(versions) : versions[k].version = k

\* the file's own names are those given at upload
NamesKept(id) ==
  /\ files[id].path = NewFile(id, files[id].uploadedBy, files[id]).path
  /\ files[id].filename = NewFile(id, files[id].uploadedBy, files[id]).filename
  /\ files[id].originalName = NewFile(id, files[id].uploadedBy, files[id]).originalName

\* C23: under any interleaving of convertFile, optimizeFileForPrint and
\* createFileVersion on one file, its versions are numbered 1, 2, ..., n in
\* order without duplicate or gap, and its path, filename and originalName are
\* unchanged.
C23_VersionsSequential ==
  \A id \in DOMAIN files : Sequential(files[id].versions) /\ NamesKept(id)

----------------------------------------------------------------------------
(* SpecFilesFair: the background task that uploadFile sets off runs to its end.
   Node runs a started promise chain as long as the process lives; the database
   is taken to answer the writes of the task, the one of the failure path
   included. *)

ProcessTask(id) == [kind |-> "process", id |-> id]

ProcessStep(id) == \E saveThrows \in BOOLEAN : processFile(ProcessTask(id), saveThrows)

SpecFilesFair ==
  SpecFiles /\ \A id \in FileIds : WF_vars(ProcessStep(id))

\* the failure path of file id's processing is taken
ProcessFails(id) == processFile(ProcessTask(id), TRUE)

\* C24: once uploadFile has answered, the background processing of the file
\* eventually finishes, leaving the status validated or rejected; a processing
\* that fails leaves the status rejected with isValid false; the processing
\* leaves the answers given alone, and no step removes a stored file record.
C24_ProcessingEnds ==
  /\ \A id \in FileIds :
       (id \in DOMAIN files /\ ProcessTask(id) \in DOMAIN inflight)
         ~> (/\ id \in DOMAIN files
             /\ ProcessTask(id) \notin DOMAIN inflight
             /\ files[id].status \in {"validated", "rejected"})
  /\ [][\A id \in DOMAIN files :
          /\ id \in DOMAIN files'
          /\ ProcessStep(id)
               => last' = last /\ files'[id].status \in {"validated", "rejected"}
          /\ ProcessFails(id)
               => /\ files'[id].status = "rejected"
                  /\ ~files'[id].validationResults.isValid]_vars

C24_Witness ==
  /\ last.op = "uploadFile" /\ last.code = "Created" /\ last.id \in DOMAIN files
  /\ ProcessTask(last.id) \notin DOMAIN inflight
  /\ files[last.id].status = "rejected"
  /\ files[last.id].validationResults =
       [isValid |-> FALSE, issues |-> <<Issue("error", "processing")>>]

----------------------------------------------------------------------------
(* Service controller: the catalogue changes under the stored order, one order
   at a time *)

\* Object.assign(service, updateData)
Assigned(service, data) ==
  [f \in DOMAIN service |-> IF f \in DOMAIN data THEN data[f] ELSE service[f]]

AnswerS(op, user, sid, code) ==
  /\ last' = Answer(op, user, sid, {}, code)
  /\ UNCHANGED <<files, accounts, inventory, now, orders, nextOrderId, payments,
                 nextPaymentId, inflight>>

UpdateService(user, sid, data) ==
  IF ~Authorize(user, {"admin"})
  THEN AnswerS("updateService", user, sid, "Forbidden") /\ UNCHANGED services
  ELSE IF sid \notin DOMAIN services
  THEN AnswerS("updateService", user, sid, "NotFound") /\ UNCHANGED services
  ELSE /\ services' = [services EXCEPT ![sid] = Assigned(@, data)]
       /\ AnswerS("updateService", user, sid, "Updated")

DeleteService(user, sid) ==
  IF ~Authorize(user, {"admin"})
  THEN AnswerS("deleteService", user, sid, "Forbidden") /\ UNCHANGED services
  ELSE IF sid \notin DOMAIN services
  THEN AnswerS("deleteService", user, sid, "NotFound") /\ UNCHANGED services
  ELSE /\ services' = [services EXCEPT ![sid].isActive = FALSE]
       /\ AnswerS("deleteService", user, sid, "Deleted")

\* updateService bodies: a new price, a reactivation
ServiceUpdates == {[basePrice |-> 70], [isActive |-> TRUE]}

CatalogueItemLists ==
  {<<GoodItem>>, <<GoodItem, ItemReq("s4", 2, {"o3"})>>}

CatalogueEdits ==
  {UpdateReq({<<ItemReq("s1", 3, {"o1"})>>}, NoValue, NoValue, NoValue, NoValue),
   UpdateReq({}, "note", NoValue, NoValue, NoValue),
   UpdateReq({}, NoValue, "confirmed", NoValue, NoValue)}

NextCatalogue ==
  \/ \E l \in CatalogueItemLists : DOMAIN orders = {} /\ CreateOrder("c1", CreateReq(l, NoValue))
  \/ \E u \in {"c1", "a1"}, id \in DOMAIN orders, r \in CatalogueEdits : UpdateOrder(u, id, r)
  \/ \E id \in DOMAIN orders : GenerateQuote("a1", id)
  \/ \E id \in DOMAIN orders : DeleteOrder("c1", id)
  \/ \E u \in {"c1", "a1"}, sid \in {"s1", "s3"}, d \in ServiceUpdates : UpdateService(u, sid, d)
  \/ \E u \in {"c1", "a1"}, sid \in {"s1", "s4"} : DeleteService(u, sid)

SpecCatalogue == Init /\ [][NextCatalogue]_vars

\* the step is an updateService or a deleteService request
ServiceRequest ==
  /\ last'.op \in {"updateService", "deleteService"}
  /\ \/ \E d \in ServiceUpdates : UpdateService(last'.user, last'.id, d)
     \/ DeleteService(last'.user, last'.id)

\* the step is a request that gives the order new line items
ReplacesItemsOf(id) ==
  last'.op = "updateOrder" /\ last'.id = id /\ "items" \in last'.sent

\* C25: updateService and deleteService change no stored order, and an order's
\* line items (service snapshot, unitPrice, totalPrice) and totals stay as they
\* were when the items were added, whatever the catalogue has become;
\* deleteService keeps the service record and only sets isActive to false.
C25_OrdersKeepSnapshot ==
  [][/\ ServiceRequest => orders' = orders
     /\ \A id \in DOMAIN orders \cap DOMAIN orders' :
          ~ReplacesItemsOf(id)
            => /\ orders'[id].items = orders[id].items
               /\ orders'[id].subtotal = orders[id].subtotal
               /\ orders'[id].taxAmount = orders[id].taxAmount
               /\ orders'[id].totalPrice = orders[id].totalPrice
     /\ (last'.op = "deleteService" /\ DeleteService(last'.user, last'.id))
          => /\ DOMAIN services' = DOMAIN services
             /\ \A sid \in DOMAIN services :
                  services'[sid] =
                    IF sid = last'.id /\ last'.code = "Deleted"
                    THEN [services[sid] EXCEPT !.isActive = FALSE]
                    ELSE services[sid]]_vars

C25_Witness ==
  /\ last.op = "deleteService" /\ last.code = "Deleted" /\ last.id = "s1"
  /\ "s1" \in DOMAIN services /\ ~services["s1"].isActive
  /\ services["s1"].basePrice = 70
  /\ \E id \in DOMAIN orders :
       /\ orders[id].items[1].serviceId = "s1"
       /\ orders[id].items[1].service = InitServices["s1"]
       /\ orders[id].items[1].unitPrice = 50
       /\ orders[id].items[1].totalPrice = 100
       /\ orders[id].subtotal = 100
       /\ orders[id].notes = "note"

----------------------------------------------------------------------------
(* The unique index on orderNumber under interleaved createOrder requests *)

\* the step is the insert of a suspended createOrder whose number is stored
InsertOfStoredNumber ==
  /\ last'.op = "createOrder"
  /\ \E r \in DOMAIN Suspended("order") :
       /\ \E id \in DOMAIN orders : orders[id].orderNumber = r.doc.orderNumber
       /\ FinishCreateOrder(r)

\* C26: no two stored orders ever have the same orderNumber, however the
\* createOrder requests interleave; the insert of an order whose generated
\* number is already stored fails with Conflict and stores nothing.
C26_OrderNumbersUnique ==
  /\ [](\A i, j \in DOMAIN orders :
          orders[i].orderNumber = orders[j].orderNumber => i = j)
  /\ [][InsertOfStoredNumber => last'.code = "Conflict" /\ orders' = orders]_vars

C26_Witness ==
  /\ last.op = "createOrder" /\ last.code = "Conflict"
  /\ Cardinality(DOMAIN orders) = 1
  /\ DOMAIN Suspended("order") = {}
  /\ orders[1].orderNumber = OrderNumberFor(0, orders[1].createdAt)

----------------------------------------------------------------------------
(* The status of a file against its last validation result *)

\* C27: in every reachable state a file whose status is validated has
\* validationResults.isValid true.
C27_ValidatedIsValid ==
  \A id \in DOMAIN files :
    files[id].status = "validated" => files[id].validationResults.isValid

----------------------------------------------------------------------------
(* Sessions: the refreshTokens list of a user document, the auth controller and
   the refreshTokenAuth middleware.  The clock counts the seconds of the
   tokens' iat. *)

MaxRefreshTokens == 5

\* jwt.sign({userId, type: 'refresh'}, secret, {expiresIn}): the payload gets
\* iat, the second of the signature, and exp; signing is deterministic, so two
\* tokens signed for one user in one second are the same string
Token(user, t) == [userId |-> user, type |-> "refresh", iat |-> t]

RefreshTokens(user) == {Token(user, t) : t \in 1..MaxTime}

Contains(list, tk) == \E i \in 1..Len(list) : list[i] = tk

\* Array.prototype.filter(token => token !== tk)
Without(list, tk) == SelectSeq(list, LAMBDA x : x # tk)

\* userSchema.methods.generateRefreshToken on the document's list
generateRefreshToken(list, tk) ==
  IF Len(list) + 1 > MaxRefreshTokens
  THEN SubSeq(Append(list, tk), Len(list) + 2 - MaxRefreshTokens, Len(list) + 1)
  ELSE Append(list, tk)

AnswerA(op, user, sent, code) ==
  /\ last' = Answer(op, user, 0, sent, code)
  /\ UNCHANGED <<files, inventory, now, services, orders, nextOrderId, payments,
                 nextPaymentId, inflight>>

RejectA(op, user, sent, code) ==
  AnswerA(op, user, sent, code) /\ UNCHANGED accounts

\* login: generateRefreshToken pushes the token, then the handler pushes it again
Login(user, passwordOk) ==
  IF ~passwordOk
  THEN RejectA("login", user, {}, "Unauthorized")
  ELSE LET tk == Token(user, now)
       IN /\ accounts' = [accounts EXCEPT ![user].refreshTokens =
                            Append(generateRefreshToken(@, tk), tk)]
          /\ AnswerA("login", user, {tk}, "Ok")

\* refreshTokenAuth, then refreshToken
RefreshToken(tk) ==
  LET user == tk.userId
  IN IF tk.type # "refresh" \/ user \notin DOMAIN accounts
        \/ ~Contains(accounts[user].refreshTokens, tk)
     THEN RejectA("refreshToken", user, {tk}, "Unauthorized")
     ELSE /\ accounts' = [accounts EXCEPT ![user].refreshTokens =
                            generateRefreshToken(Without(@, tk), Token(user, now))]
          /\ AnswerA("refreshToken", user, {tk}, "Ok")

\* logout
Logout(user, tk) ==
  /\ accounts' = [accounts EXCEPT ![user].refreshTokens = Without(@, tk)]
  /\ AnswerA("logout", user, {tk}, "Ok")

\* forgotPassword, the e-mail sent
ForgotPassword(user) ==
  /\ accounts' = [accounts EXCEPT ![user].passwordResetToken = TRUE]
  /\ AnswerA("forgotPassword", user, {}, "Ok")

\* resetPassword with the token of the e-mail, within its ten minutes
ResetPassword(user) ==
  IF ~accounts[user].passwordResetToken
  THEN RejectA("resetPassword", user, {}, "BadRequest")
  ELSE /\ accounts' = [accounts EXCEPT ![user].passwordResetToken = FALSE,
                                       ![user].refreshTokens = << >>]
       /\ AnswerA("resetPassword", user, {}, "Ok")

ChangePassword(user, passwordOk) ==
  IF ~passwordOk
  THEN RejectA("changePassword", user, {}, "BadRequest")
  ELSE /\ accounts' = [accounts EXCEPT ![user].refreshTokens = << >>]
       /\ AnswerA("changePassword", user, {}, "Ok")

SessionUsers == {"c1"}

NextAuth ==
  \/ \E u \in SessionUsers, ok \in BOOLEAN : Login(u, ok)
  \/ \E u \in SessionUsers : \E tk \in RefreshTokens(u) : RefreshToken(tk)
  \/ \E u \in SessionUsers : \E tk \in RefreshTokens(u) : Logout(u, tk)
  \/ \E u \in SessionUsers : ForgotPassword(u)
  \/ \E u \in SessionUsers : ResetPassword(u)
  \/ \E u \in SessionUsers, ok \in BOOLEAN : ChangePassword(u, ok)
  \/ Tick

SpecAuth == Init /\ [][NextAuth]_vars

NoDuplicate(list) == \A i, j \in 1..Len(list) : list[i] = list[j] => i = j

\* C28: after any sequence of login and refresh-token requests a user's
\* refreshTokens list holds at most 5 tokens and no token twice.
C28_TokensBounded ==
  \A u \in DOMAIN accounts :
    /\ Len(accounts[u].refreshTokens) <= MaxRefreshTokens
    /\ NoDuplicate(accounts[u].refreshTokens)

\* the step is a refresh-token request presenting tk
RefreshRequest(tk) ==
  /\ last'.op = "refreshToken" /\ last'.sent = {tk}
  /\ RefreshToken(tk)

\* the step is an accepted changePassword or resetPassword of the user
PasswordChanged(user) ==
  /\ last'.op \in {"changePassword", "resetPassword"}
  /\ last'.code = "Ok" /\ last'.user = user
  /\ ChangePassword(user, TRUE) \/ ResetPassword(user)

\* C29: a refresh token is single-use and revocable: an accepted refresh-token
\* request leaves the presented token out of the user's list, a request with a
\* token that is not in the list is rejected as unauthorized, and an accepted
\* changePassword or resetPassword leaves no token in the list.
C29_SingleUse ==
  [][\A u \in SessionUsers :
       /\ \A tk \in RefreshTokens(u) :
            /\ (RefreshRequest(tk) /\ last'.code = "Ok")
                 => ~Contains(accounts'[u].refreshTokens, tk)
            /\ (RefreshRequest(tk) /\ ~Contains(accounts[u].refreshTokens, tk))
                 => last'.code = "Unauthorized" /\ accounts' = accounts
       /\ PasswordChanged(u) => accounts'[u].refreshTokens = << >>]_vars

----------------------------------------------------------------------------
(* Inventory: InventoryItem.addStockMovement and its controller *)

MovementTypes == {"in", "out", "adjustment"}

\* the pre-save hook of an article: the status of its stock
ItemStatus(item) ==
  IF item.currentStock <= 0 THEN "out_of_stock"
  ELSE IF 2 * item.currentStock <= item.minStock THEN "critical"
  ELSE IF item.currentStock <= item.minStock THEN "low"
  ELSE "ok"

\* the stock an accepted movement leaves
StockAfter(stock, type, quantity) ==
  CASE type = "in" -> stock + quantity
    [] type = "out" -> stock - quantity
    [] type = "adjustment" -> quantity
    [] OTHER -> stock

\* the second throw of the method
InsufficientNever(stock, type, quantity) == FALSE
Insufficient(stock, type, quantity) == type = "out" /\ quantity > stock

\* inventoryItemSchema.methods.addStockMovement up to its writes: what it
\* throws ("none": nothing), the document it saves and the StockMovement it creates
addStockMovement(id, item, type, quantity, user, t) ==
  IF quantity <= 0
  THEN [error |-> "QuantityNotPositive", item |-> item, record |-> NoValue]
  ELSE IF Insufficient(item.currentStock, type, quantity)
  THEN [error |-> "InsufficientStock", item |-> item, record |-> NoValue]
  ELSE LET newStock == StockAfter(item.currentStock, type, quantity)
       IN [error |-> "none",
           item |-> [item EXCEPT
                       !.currentStock = newStock,
                       !.stockMovements =
                          Append(@, [type |-> type, quantity |-> quantity,
                                     performedBy |-> user, timestamp |-> t])],
           record |-> [itemId |-> id, type |-> type, quantity |-> quantity,
                       previousStock |-> item.currentStock, newStock |-> newStock,
                       performedBy |-> user]]

\* addStockMovementValidation
MovementValid(type, quantity) == type \in MovementTypes /\ quantity >= 1

AnswerI(user, id, code) ==
  /\ last' = Answer("addStockMovement", user, id, {}, code)
  /\ UNCHANGED <<files, accounts, now, services, orders, nextOrderId, payments,
                 nextPaymentId, inflight>>

\* POST /:id/movements
AddStockMovement(user, id, type, quantity) ==
  IF ~Authorize(user, {"admin"})
  THEN AnswerI(user, id, "Forbidden") /\ UNCHANGED inventory
  ELSE IF ~MovementValid(type, quantity)
  THEN AnswerI(user, id, "ValidationError") /\ UNCHANGED inventory
  ELSE IF id \notin DOMAIN inventory.items
  THEN AnswerI(user, id, "NotFound") /\ UNCHANGED inventory
  ELSE LET r == addStockMovement(id, inventory.items[id], type, quantity, user, now)
       IN IF r.error # "none"
          THEN AnswerI(user, id, "InternalError") /\ UNCHANGED inventory
          ELSE /\ r.item.currentStock <= MaxStock
               /\ Len(inventory.movements) < MaxMovements
               /\ inventory' =
                    [items |-> [inventory.items EXCEPT
                                  ![id] = [r.item EXCEPT !.status = ItemStatus(r.item)]],
                     movements |-> Append(inventory.movements, r.record)]
               /\ AnswerI(user, id, "Ok")

\* the bodies sent: every type, and one the validation refuses; quantities
\* below, at and above what is in stock
MovementInputs == (MovementTypes \cup {"transfer"}) \X {-1, 0, 1, 2, 3}

NextInventory ==
  \/ \E u \in {"a1", "e1"}, id \in {"i1", "i2"}, m \in MovementInputs :
       AddStockMovement(u, id, m[1], m[2])

SpecInventory == Init /\ [][NextInventory]_vars

\* the step is an addStockMovement call on a stored article
MovementRequest(type, quantity) ==
  /\ last'.op = "addStockMovement"
  /\ last'.id \in DOMAIN inventory.items
  /\ AddStockMovement(last'.user, last'.id, type, quantity)

\* a movement that is to be rejected
Refused(stock, type, quantity) == quantity <= 0 \/ (type = "out" /\ quantity > stock)

\* C30: currentStock is never negative; a movement with quantity <= 0, or an
\* out movement larger than currentStock, is rejected and leaves currentStock
\* and both movement logs unchanged; an accepted movement adds exactly one
\* StockMovement record whose previousStock and newStock are the stock before
\* and after it (in adds, out subtracts, adjustment sets).
C30_StockMovements ==
  /\ [](\A id \in DOMAIN inventory.items : inventory.items[id].currentStock >= 0)
  /\ [](\A id \in DOMAIN inventory.items : \A m \in MovementInputs :
          Refused(inventory.items[id].currentStock, m[1], m[2])
            => LET r == addStockMovement(id, inventory.items[id], m[1], m[2], "a1", now)
               IN r.error # "none" /\ r.item = inventory.items[id] /\ r.record = NoValue)
  /\ [][\A m \in MovementInputs :
          MovementRequest(m[1], m[2])
            => LET id == last'.id
                   stock == inventory.items[id].currentStock
                   stockAfter == inventory'.items[id].currentStock
                   n == Len(inventory.movements)
               IN /\ Refused(stock, m[1], m[2])
                       => last'.code # "Ok" /\ inventory' = inventory
                  /\ last'.code = "Ok"
                       => /\ Len(inventory'.movements) = n + 1
                          /\ SubSeq(inventory'.movements, 1, n) = inventory.movements
                          /\ inventory'.movements[n + 1].itemId = id
                          /\ inventory'.movements[n + 1].previousStock = stock
                          /\ inventory'.movements[n + 1].newStock = stockAfter
                          /\ m[1] = "in" => stockAfter = stock + m[2]
                          /\ m[1] = "out" => stockAfter = stock - m[2]
                          /\ m[1] = "adjustment" => stockAfter = m[2]
                          /\ Len(inventory'.items[id].stockMovements) =
                               Len(inventory.items[id].stockMovements) + 1
                  /\ last'.code # "Ok" => inventory' = inventory]_vars

C30_Witness ==
  /\ last.op = "addStockMovement" /\ last.code = "Ok" /\ last.id = "i1"
  /\ inventory.items["i1"].currentStock = 0
  /\ inventory.items["i1"].status = "out_of_stock"
  /\ Len(inventory.movements) = 2
  /\ inventory.movements[1].type = "in"
  /\ inventory.movements[1].previousStock = 2 /\ inventory.movements[1].newStock = 3
  /\ inventory.movements[2].type = "out" /\ inventory.movements[2].quantity = 3
  /\ inventory.movements[2].previousStock = 3 /\ inventory.movements[2].newStock = 0

====
